---------------------------- MODULE Spec2Model ----------------------------
(***************************************************************************)
(* A model of atomata: the parameter model, the N-body integrator step,   *)
(* the state-vector discretization, the transactional aggregation store   *)
(* and the parallel parameter sweep of run() in Mode::Search.              *)
(*                                                                         *)
(* Number model.  The program computes in f32.  The model computes on an  *)
(* integer grid: a vector is a triple of integers, a division truncates   *)
(* toward zero (Quot), a square root is the integer square root.  The     *)
(* value lists of the parameter space are written in grid units:          *)
(*   amount           in tens of particles  (10 -> 1)                      *)
(*   friction         in thousandths        (0.005 -> 5, 2.0 -> 2000)      *)
(*   timestep         in units of 0.0002    (0.0002 -> 1)                  *)
(*   gravity_constant in halves             (0.5 -> 1, 1.0 -> 2)           *)
(*   max_velocity     in thousands          (20000.0 -> 20)                *)
(*   border, bucket_size, mass              as written in the source       *)
(* rand::random::<f32>() - 0.5 is a hundredth-fraction drawn from a       *)
(* stream that a nondeterministically chosen seed fixes.                   *)
(***************************************************************************)
EXTENDS Integers, Sequences, FiniteSets, TLC

\* ------------------------------------------------------------------ bounds

\* Parameter sets the modelled sweep processes (the first NumSets elements of
\* parameter_space; the program processes all of them).
NumSets == 2

\* Integrator steps of one sweep run (the program runs 10000).
Iterations == 2

\* Seeds of the random stream a particle population is drawn from.
NumSeeds == 2

\* Calls the store harness makes.
MaxOps == 6

\* Particles of the population one integrator step is checked on.
MaxParticles == 3

\* Calls of update_particles in one behaviour of the integrator machine.
MaxSteps == 2

\* ----------------------------------------------------------- number model

Abs(a) == IF a < 0 THEN -a ELSE a

\* f32::signum on the grid: 1 for +0.0 and positive values, -1 for negative ones.
Signum(a) == IF a < 0 THEN -1 ELSE 1

\* Division truncating toward zero.
Quot(a, b) == IF (a < 0) = (b < 0) THEN Abs(a) \div Abs(b) ELSE -(Abs(a) \div Abs(b))

\* Heron's iteration downward from an estimate x >= floor(sqrt(n)).
RECURSIVE ISqrtFrom(_, _)
ISqrtFrom(n, x) ==
    LET y == (x + n \div x) \div 2
    IN  IF y >= x THEN x ELSE ISqrtFrom(n, y)

\* Integer square root (floor).
ISqrt(n) == IF n = 0 THEN 0 ELSE ISqrtFrom(n, n)

vec3(x, y, z) == <<x, y, z>>

VAdd(a, b) == <<a[1] + b[1], a[2] + b[2], a[3] + b[3]>>

VSub(a, b) == <<a[1] - b[1], a[2] - b[2], a[3] - b[3]>>

VScale(a, s) == <<a[1] * s, a[2] * s, a[3] * s>>

VNeg(a) == <<-a[1], -a[2], -a[3]>>

\* Squared Euclidean magnitude; magnitude(a) is its integer square root.
Magnitude2(a) == a[1] * a[1] + a[2] * a[2] + a[3] * a[3]

magnitude(a) == ISqrt(Magnitude2(a))

\* Option<T>: the empty set is None, a singleton is Some(v).
None == {}

Some(v) == {v}

unwrap(o) == CHOOSE v \in o : TRUE

\* Result<T, String>.
Ok(v) == [ok |-> TRUE, val |-> v]

Err(e) == [ok |-> FALSE, err |-> e]

RECURSIVE SeqSum(_)
SeqSum(s) == IF s = <<>> THEN 0 ELSE Head(s) + SeqSum(Tail(s))

\* ------------------------------------------------------------- parameters

Attraction == "Attraction"

Repulsion == "Repulsion"

Neutral == "Neutral"

InteractionType == {Attraction, Repulsion, Neutral}

\* The three-kind template shared by Parameters::default and parameter_space.
template_particle_parameters ==
    << [id |-> None, mass |-> 3, index |-> 0],
       [id |-> None, mass |-> 250, index |-> 1],
       [id |-> None, mass |-> 1000, index |-> 2] >>

template_interactions ==
    << Repulsion,   \* 0 <-> 0
       Attraction,  \* 1 <-> 0
       Attraction,  \* 2 <-> 0
       Repulsion,   \* 1 <-> 1
       Attraction,  \* 1 <-> 2
       Neutral >>   \* 2 <-> 2

\* Parameters::default().
default_parameters ==
    [ amount |-> 1,
      border |-> 200,
      friction |-> 5,
      timestep |-> 1,
      gravity_constant |-> 2,
      particle_parameters |-> template_particle_parameters,
      interactions |-> template_interactions,
      max_velocity |-> 20,
      bucket_size |-> 10 ]

amounts == <<1, 2, 3, 10, 50, 100>>

borders == <<200, 400, 600, 2000>>

frictions == <<0, 5, 10, 2000>>

timesteps == <<1, 2, 3>>

gravity_constants == <<1, 2, 4, 6>>

max_velocities == <<20, 40, 60>>

bucket_sizes == <<2, 5, 10, 20, 30>>

\* Number of elements parameter_space() returns.
size_parameter_space ==
    Len(amounts) * Len(borders) * Len(frictions) * Len(timesteps)
        * Len(gravity_constants) * Len(max_velocities) * Len(bucket_sizes)

\* The element parameter_space() pushes n-th (n from 0): the seven nested
\* loops, amount outermost and bucket_size innermost.
parameter_space_at(n) ==
    LET nb == Len(bucket_sizes)
        nv == Len(max_velocities)
        ng == Len(gravity_constants)
        nt == Len(timesteps)
        nf == Len(frictions)
        no == Len(borders)
        ib == n % nb
        iv == (n \div nb) % nv
        ig == (n \div (nb * nv)) % ng
        it == (n \div (nb * nv * ng)) % nt
        if == (n \div (nb * nv * ng * nt)) % nf
        io == (n \div (nb * nv * ng * nt * nf)) % no
        ia == n \div (nb * nv * ng * nt * nf * no)
    IN  [ amount |-> amounts[ia + 1],
          border |-> borders[io + 1],
          friction |-> frictions[if + 1],
          timestep |-> timesteps[it + 1],
          gravity_constant |-> gravity_constants[ig + 1],
          particle_parameters |-> template_particle_parameters,
          interactions |-> template_interactions,
          max_velocity |-> max_velocities[iv + 1],
          bucket_size |-> bucket_sizes[ib + 1] ]

\* The flat index interaction_by_indices computes for i <= j.
packed_index(num_particle_kinds, i, j) ==
    (i * (2 * num_particle_kinds - i + 1)) \div 2 + (j - i)

\* A lookup that takes the pair as given, without ordering it: j - i
\* underflows for i > j.
interaction_by_indices_as_given(self, i, j) ==
    LET num_particle_kinds == Len(self.particle_parameters)
    IN  IF num_particle_kinds = 0 THEN Err("panic")
        ELSE IF i > num_particle_kinds - 1 \/ j > num_particle_kinds - 1
        THEN Err("Index out of bounds")
        ELSE IF i > j \/ packed_index(num_particle_kinds, i, j) + 1 > Len(self.interactions)
        THEN Err("panic")
        ELSE Ok(self.interactions[packed_index(num_particle_kinds, i, j) + 1])

\* A lookup into a table packed by rows of the lower triangle.
interaction_by_indices_lower(self, i, j) ==
    LET num_particle_kinds == Len(self.particle_parameters)
        lo == IF i > j THEN j ELSE i
        hi == IF i > j THEN i ELSE j
        index == (hi * (hi + 1)) \div 2 + lo
    IN  IF num_particle_kinds = 0 THEN Err("panic")
        ELSE IF i > num_particle_kinds - 1 \/ j > num_particle_kinds - 1
        THEN Err("Index out of bounds")
        ELSE IF index + 1 > Len(self.interactions) THEN Err("panic")
        ELSE Ok(self.interactions[index + 1])

\* Parameters::interaction_by_indices.  With no kinds the usize subtraction
\* num_particle_kinds - 1 underflows: the call panics (debug build) or wraps
\* and indexes the empty table (release build), a panic either way.
interaction_by_indices(self, i, j) ==
    LET num_particle_kinds == Len(self.particle_parameters)
        lo == IF i > j THEN j ELSE i
        hi == IF i > j THEN i ELSE j
        index == packed_index(num_particle_kinds, lo, hi)
    IN  IF num_particle_kinds = 0
        THEN Err("panic")
        ELSE IF i > num_particle_kinds - 1 \/ j > num_particle_kinds - 1
        THEN Err("Index out of bounds")
        ELSE IF index + 1 > Len(self.interactions)
        THEN Err("panic")
        ELSE Ok(self.interactions[index + 1])

\* Parameters::particle_parameters_by_index: the first kind with that index.
particle_parameters_by_index(self, index) ==
    LET hits == {k \in 1..Len(self.particle_parameters) :
                     self.particle_parameters[k].index = index}
    IN  IF hits = {} THEN None
        ELSE Some(self.particle_parameters[CHOOSE k \in hits : \A m \in hits : k <= m])

\* --------------------------------------------------------------- particle

\* The stream rand::random::<f32>() - 0.5 is drawn from, in hundredths: a
\* value in [-0.5, 0.5).  The seed fixes where the stream starts.
RandTable == <<0, 2, -1, 49, -2, 25, 1>>

rand_at(seed, k) == RandTable[((seed + k) % Len(RandTable)) + 1]

\* Particle::new, its six random draws being draws k .. k+5 of the stream.
Particle_new(id, border, mass, max_velocity, seed, k) ==
    [ index |-> id,
      position |-> vec3(Quot(rand_at(seed, k) * border, 100),
                        Quot(rand_at(seed, k + 1) * border, 100),
                        Quot(rand_at(seed, k + 2) * border, 100)),
      velocity |-> vec3(Quot(rand_at(seed, k + 3) * max_velocity, 100),
                        Quot(rand_at(seed, k + 4) * max_velocity, 100),
                        Quot(rand_at(seed, k + 5) * max_velocity, 100)),
      mass |-> mass,
      max_velocity |-> max_velocity ]

\* The largest finite value of the grid.  f32::MAX is about 3.4e38; the grid
\* is cut at 10^9 so that every finite value and every product the model forms
\* fits the integers of the checker.  Beyond it lie the two infinities and NaN.
F32Max == 1000000000

Inf == F32Max + 1

NaN == F32Max + 2

\* f32 addition on the grid with its infinities and NaN.
fadd(a, b) ==
    IF a = NaN \/ b = NaN THEN NaN
    ELSE IF Abs(a) = Inf /\ Abs(b) = Inf THEN (IF a = b THEN a ELSE NaN)
    ELSE IF Abs(a) = Inf THEN a
    ELSE IF Abs(b) = Inf THEN b
    ELSE a + b

\* f32 negation.
fneg(a) == IF a = NaN THEN NaN ELSE -a

\* force / self.mass of update_velocity, per axis.  The product
\* gravity_constant * self.mass * other_mass (gravity_constant in halves)
\* overflows to +inf beyond F32Max; normalize(direction) * inf is then inf with
\* the sign of the axis, and NaN on an axis where the direction is 0.
force_over_mass(self, other_position, other_mass, gravity_constant) ==
    LET direction == VSub(other_position, self.position)
        distance == magnitude(direction)
        overflows == /\ other_mass > 0
                     /\ gravity_constant * self.mass > (2 * F32Max) \div other_mass
        force_magnitude ==
            Quot(gravity_constant * self.mass * other_mass, 2 * Magnitude2(direction))
    IN  IF overflows
        THEN [a \in 1..3 |-> IF direction[a] = 0 THEN NaN
                             ELSE Signum(direction[a]) * Inf]
        ELSE [a \in 1..3 |->
                 Quot(Quot(direction[a] * force_magnitude, distance), self.mass)]

\* The velocity update_velocity computes before its clamp: += force / mass for
\* an Attraction, -= for anything else.
accelerated(self, other_position, other_mass, interaction_type, gravity_constant) ==
    LET dv == force_over_mass(self, other_position, other_mass, gravity_constant)
    IN  [a \in 1..3 |->
            IF interaction_type = Attraction
            THEN fadd(self.velocity[a], dv[a])
            ELSE fadd(self.velocity[a], fneg(dv[a]))]

\* A clamp that tests the axis without abs(): a velocity below -max_velocity
\* passes.
clamp_axis_without_abs(v, max_velocity) ==
    IF v = NaN THEN NaN
    ELSE IF v > max_velocity THEN max_velocity ELSE v

\* One axis of the clamp of update_velocity: v.abs() > max_velocity is false
\* for a NaN, which passes unchanged.
clamp_axis(v, max_velocity) ==
    IF v = NaN THEN NaN
    ELSE IF Abs(v) > max_velocity THEN Signum(v) * max_velocity ELSE v

\* update_velocity without its test for Neutral.
update_velocity_ignoring_policy(self, other_position, other_mass, interaction_type, gravity_constant) ==
    IF magnitude(VSub(other_position, self.position)) > 0
    THEN LET v == accelerated(self, other_position, other_mass, interaction_type,
                      gravity_constant)
         IN  [self EXCEPT !.velocity = <<clamp_axis(v[1], self.max_velocity),
                                         clamp_axis(v[2], self.max_velocity),
                                         clamp_axis(v[3], self.max_velocity)>>]
    ELSE self

\* Particle::update_velocity.  distance > 0.0001 is distance > 0 on the grid.
update_velocity(self, other_position, other_mass, interaction_type, gravity_constant) ==
    IF interaction_type = Neutral THEN self
    ELSE IF magnitude(VSub(other_position, self.position)) > 0
    THEN LET v == accelerated(self, other_position, other_mass, interaction_type,
                      gravity_constant)
         IN  [self EXCEPT !.velocity = <<clamp_axis(v[1], self.max_velocity),
                                         clamp_axis(v[2], self.max_velocity),
                                         clamp_axis(v[3], self.max_velocity)>>]
    ELSE self

\* Particle::apply_friction: velocity *= 1 - friction (friction in thousandths).
apply_friction(self, friction) ==
    [self EXCEPT !.velocity = <<Quot(self.velocity[1] * (1000 - friction), 1000),
                                Quot(self.velocity[2] * (1000 - friction), 1000),
                                Quot(self.velocity[3] * (1000 - friction), 1000)>>]

\* Particle::compute_updated_position.
compute_updated_position(self, time_step) ==
    VAdd(self.position, VScale(self.velocity, time_step))

\* An update_position that negates the velocity at the border but commits
\* the tentative position.
update_position_without_recompute(self, parameters) ==
    LET updated_position == VAdd(self.position, VScale(self.velocity, parameters.timestep))
    IN  IF Magnitude2(updated_position) > parameters.border * parameters.border
        THEN [self EXCEPT !.velocity = VNeg(self.velocity), !.position = updated_position]
        ELSE [self EXCEPT !.position = updated_position]

\* Particle::update_position.  magnitude > border is compared on the squares.
update_position(self, parameters) ==
    LET updated_position == compute_updated_position(self, parameters.timestep)
        reflected == [self EXCEPT !.velocity = VNeg(self.velocity)]
    IN  IF Magnitude2(updated_position) > parameters.border * parameters.border
        THEN [reflected EXCEPT
                 !.position = compute_updated_position(reflected, parameters.timestep)]
        ELSE [self EXCEPT !.position = updated_position]

\* A discretization that rounds toward minus infinity (floor) instead.
StateVector_new_flooring(mass, position, velocity, bucket_size, parameters_id) ==
    [ mass |-> mass,
      position_bucket |-> <<position[1] \div bucket_size,
                            position[2] \div bucket_size,
                            position[3] \div bucket_size>>,
      velocity_bucket |-> <<velocity[1] \div bucket_size,
                            velocity[2] \div bucket_size,
                            velocity[3] \div bucket_size>>,
      parameters_id |-> parameters_id ]

\* StateVector::new: each component divided by bucket_size and truncated
\* toward zero; the mass truncated only; parameters_id is the kind's identifier.
StateVector_new(mass, position, velocity, bucket_size, parameters_id) ==
    [ mass |-> mass,
      position_bucket |-> <<Quot(position[1], bucket_size),
                            Quot(position[2], bucket_size),
                            Quot(position[3], bucket_size)>>,
      velocity_bucket |-> <<Quot(velocity[1], bucket_size),
                            Quot(velocity[2], bucket_size),
                            Quot(velocity[3], bucket_size)>>,
      parameters_id |-> parameters_id ]

\* Particle::to_state_vector.
to_state_vector(self, bucket_size, parameters_id) ==
    StateVector_new(self.mass, self.position, self.velocity, bucket_size, parameters_id)

\* ------------------------------------------------------------- integrator

RECURSIVE initialize_from(_, _, _, _, _, _, _)
initialize_from(id, border, mass, amount, max_velocity, seed, k) ==
    IF amount = 0 THEN <<>>
    ELSE <<Particle_new(id, border, mass, max_velocity, seed, k)>>
         \o initialize_from(id, border, mass, amount - 1, max_velocity, seed, k + 6)

\* initialize_particle_kind: amount particles of one kind, drawn from draw k on.
initialize_particle_kind(id, border, mass, amount, max_velocity, seed, k) ==
    initialize_from(id, border, mass, amount, max_velocity, seed, k)

RECURSIVE create_from(_, _, _)
create_from(parameters, seed, n) ==
    IF n > Len(parameters.particle_parameters) THEN <<>>
    ELSE LET particle_params == parameters.particle_parameters[n]
         IN  initialize_particle_kind(particle_params.index, parameters.border,
                 particle_params.mass, parameters.amount, parameters.max_velocity,
                 seed, 6 * parameters.amount * (n - 1))
             \o create_from(parameters, seed, n + 1)

\* create_particles: the kinds in order, amount particles each.
create_particles(parameters, seed) == create_from(parameters, seed, 1)

\* The clones update_particles takes before its loops.
Clones(particles) ==
    [ id_clones |-> [n \in 1..Len(particles) |-> particles[n].index],
      postion_clones |-> [n \in 1..Len(particles) |-> particles[n].position],
      mass_clones |-> [n \in 1..Len(particles) |-> particles[n].mass] ]

\* The body of the inner loop of update_particles for one j # i: the lookup
\* (whose error ends the step), then update_velocity, apply_friction and
\* update_position on the particle.
pair_body(particle, j, clones, parameters) ==
    LET interaction_type ==
            interaction_by_indices(parameters, particle.index, clones.id_clones[j])
    IN  IF ~interaction_type.ok THEN Err(interaction_type.err)
        ELSE Ok(update_position(
                  apply_friction(
                    update_velocity(particle, clones.postion_clones[j],
                        clones.mass_clones[j], interaction_type.val,
                        parameters.gravity_constant),
                    parameters.friction),
                  parameters))

RECURSIVE inner_loop(_, _, _, _, _)
inner_loop(particle, i, j, clones, parameters) ==
    IF j > Len(clones.id_clones) THEN Ok(particle)
    ELSE IF i = j THEN inner_loop(particle, i, j + 1, clones, parameters)
    ELSE LET r == pair_body(particle, j, clones, parameters)
         IN  IF ~r.ok THEN r
             ELSE inner_loop(r.val, i, j + 1, clones, parameters)

RECURSIVE outer_loop(_, _, _, _)
outer_loop(particles, i, clones, parameters) ==
    IF i > Len(particles) THEN Ok(particles)
    ELSE LET r == inner_loop(particles[i], i, 1, clones, parameters)
         IN  IF ~r.ok THEN r
             ELSE outer_loop([particles EXCEPT ![i] = r.val], i + 1, clones, parameters)

\* update_particles: Ok(the population after the step) or the lookup's error.
update_particles(particles, parameters) ==
    outer_loop(particles, 1, Clones(particles), parameters)

\* ------------------------------------------------------ aggregation store

\* The primary key of a state_vectors row.
Key(state_vector) ==
    <<state_vector.position_bucket, state_vector.velocity_bucket,
      state_vector.parameters_id>>

\* A state_vectors table: a function from the keys of its rows to their counts.
EmptyTable == [k \in {} |-> 0]

\* An insert that leaves an existing row as it is (ON CONFLICT DO NOTHING).
persist_state_count_ignoring(state_vector, table) ==
    LET key == Key(state_vector)
    IN  [k \in DOMAIN table \cup {key} |->
            IF k \in DOMAIN table THEN table[k] ELSE 1]

\* An insert that replaces an existing row (INSERT OR REPLACE .. count 1).
persist_state_count_replacing(state_vector, table) ==
    LET key == Key(state_vector)
    IN  [k \in DOMAIN table \cup {key} |-> IF k = key THEN 1 ELSE table[k]]

\* persist_state_count (increment_state_count in run): INSERT ... VALUES (.., 1)
\* ON CONFLICT (key) DO UPDATE SET count = count + 1.
persist_state_count(state_vector, table) ==
    LET key == Key(state_vector)
    IN  [k \in DOMAIN table \cup {key} |->
            IF k = key
            THEN IF key \in DOMAIN table THEN table[key] + 1 ELSE 1
            ELSE table[k]]

\* No transaction.
NoTransaction == [open |-> FALSE, table |-> EmptyTable]

\* A transaction opened on a fresh, empty table.
create_transaction_provider_fresh(stored) == [open |-> TRUE, table |-> EmptyTable]

\* create_transaction_provider: the transaction works on the table as stored.
create_transaction_provider(stored) == [open |-> TRUE, table |-> stored]

\* commit_transaction / TransactionProvider::commit: the table the durable
\* store holds after the commit.
commit_transaction(transaction, stored) == transaction.table

\* A drop that keeps what the transaction wrote so far.
rollback_keeping_writes(transaction, stored) == transaction.table

\* A TransactionProviderImpl dropped without commit (a panic unwinding, a kill
\* of the process): rusqlite rolls back, the durable table is as it was.
rollback_transaction(transaction, stored) == stored

\* Sum of the counts of a table.
RECURSIVE SumOver(_, _)
SumOver(table, keys) ==
    IF keys = {} THEN 0
    ELSE LET k == CHOOSE x \in keys : TRUE
         IN  table[k] + SumOver(table, keys \ {k})

SumCounts(table) == SumOver(table, DOMAIN table)

\* -------------------------------------------------------------- the sweep

VARIABLES
    pc,             \* per worker: where it is in the closure of par_iter().for_each
    particles,      \* per worker: its particle population
    iteration,      \* per worker: integrator steps done
    results,        \* per worker: state vectors not yet handed to the store
    tx,             \* per worker: its TransactionProviderImpl
    connection,     \* Mutex of the connection: holder (0: free) and poison flag
    store,          \* the durable state_vectors table
    counter,        \* completed runs
    counter_guard,  \* holder of the counter Mutex (0: free)
    average_guard,  \* holder of the average_run_time Mutex (0: free)
    api_log,        \* store harness: the store calls made so far
    step_pc,        \* integrator step: "idle", "loop", "done" or "failed"
    population,     \* integrator step: the particles slice being stepped
    step_parameters,\* integrator step: the Parameters of the call
    clones,         \* integrator step: id_clones, postion_clones, mass_clones
    step_i,         \* integrator step: index of the outer loop
    step_j,         \* integrator step: index of the inner loop
    started,        \* integrator step: the population when the step began
    applied,        \* integrator step: per particle, the calls made on it
    steps_done      \* integrator step: completed calls of update_particles

sweep_vars == <<pc, particles, iteration, results, tx, connection, store,
                counter, counter_guard, average_guard>>

step_vars == <<step_pc, population, step_parameters, clones, step_i, step_j,
               started, applied, steps_done>>

VARIABLES
    subject,        \* particle harness: the particle a method is called on
    subject_before, \* particle harness: that particle before the call
    method,         \* particle harness: the call made (name and arguments)
    lookup_parameters, \* lookup harness: the Parameters the lookup is made on
    lookup_args,    \* lookup harness: <<i, j>> of the last call
    lookup_result,  \* lookup harness: what the last call returned
    lookup_calls,   \* lookup harness: calls made
    space_call,     \* parameter_space: which call of the function this is
    space_index,    \* parameter_space: the indices of its seven loops
    space_len,      \* parameter_space: parameter_space.len()
    space_last      \* parameter_space: the element pushed last

particle_vars == <<subject, subject_before, method>>

lookup_vars == <<lookup_parameters, lookup_args, lookup_result, lookup_calls>>

space_vars == <<space_call, space_index, space_len, space_last>>

VARIABLES
    database,       \* persisting: the durable run_parameters, particle_parameters
                    \*   and interactions tables
    persist_tx,     \* persisting: the open transaction's view of the tables
    persisting,     \* persisting: the Parameters handed to persist_parameters
    persist_pc,     \* persisting: "idle", "open", "committed" or "panicked"
    persisted       \* persisting: what the calls made so far returned

persist_vars == <<database, persist_tx, persisting, persist_pc, persisted>>

VARIABLES
    disc_particle,    \* discretizer: the particle to_state_vector is called on
    disc_bucket_size, \* discretizer: the bucket_size of the call
    disc_vector       \* discretizer: the StateVector returned (None before)

disc_vars == <<disc_particle, disc_bucket_size, disc_vector>>

VARIABLES
    frame_pc,         \* render loop: "idle", "running" or "panicked"
    frame_parameters, \* render loop: default_parameters, which the panel edits
    frame_particles,  \* render loop: particles
    created_under,    \* render loop: the parameters particles was created from
    iteration_step    \* render loop: frames done

frame_vars == <<frame_pc, frame_parameters, frame_particles, created_under,
                iteration_step>>

VARIABLES
    life_particle,     \* particle life: the particle
    life_parameters,   \* particle life: default_parameters, as edited since
    life_created_with, \* particle life: the max_velocity handed to Particle::new
    life_calls         \* particle life: calls made on the particle

life_vars == <<life_particle, life_parameters, life_created_with, life_calls>>

late_vars == <<persist_vars, disc_vars, frame_vars, life_vars>>

aux_vars == <<particle_vars, lookup_vars, space_vars, late_vars>>

Workers == 1..NumSets

\* The parameter set worker w processes, as the persisting loop before the
\* sweep left it: every kind carries the row id the store assigned (kinds are
\* inserted in order into an empty particle_parameters table).
parameters_of(w) ==
    LET parameters == parameter_space_at(w - 1)
        n == Len(parameters.particle_parameters)
    IN  [parameters EXCEPT !.particle_parameters =
            [k \in 1..n |-> [parameters.particle_parameters[k] EXCEPT
                                !.id = Some(n * (w - 1) + k)]]]

\* A lock that is handed out whoever holds it.
mutex_free_ignoring_holder(holder) == TRUE

\* Mutex::lock returns once no thread holds the mutex.
mutex_free(holder) == holder = 0

SweepInit ==
    /\ pc = [w \in Workers |-> "start"]
    /\ particles = [w \in Workers |-> <<>>]
    /\ iteration = [w \in Workers |-> 0]
    /\ results = [w \in Workers |-> <<>>]
    /\ tx = [w \in Workers |-> NoTransaction]
    /\ connection = [holder |-> 0, poisoned |-> FALSE]
    /\ store = EmptyTable
    /\ counter = 0
    /\ counter_guard = 0
    /\ average_guard = 0

\* lib.rs 139: counter.lock().unwrap() of the logging block.
LogLockCounter(w) ==
    /\ pc[w] = "start"
    /\ mutex_free(counter_guard)
    /\ counter_guard' = w
    /\ pc' = [pc EXCEPT ![w] = "log_average"]
    /\ UNCHANGED <<particles, iteration, results, tx, connection, store, counter,
                   average_guard>>
    /\ UNCHANGED <<api_log, step_vars, aux_vars>>

\* A logging block whose guards live on to the end of the closure.
LogProgress_keeping_guards(w) ==
    /\ pc[w] = "log_average"
    /\ mutex_free(average_guard)
    /\ size_parameter_space - counter >= 0
    /\ average_guard' = w
    /\ pc' = [pc EXCEPT ![w] = "create"]
    /\ UNCHANGED <<particles, iteration, results, tx, connection, store, counter,
                   counter_guard>>
    /\ UNCHANGED <<api_log, step_vars, aux_vars>>

\* lib.rs 140-153: average_run_time.lock().unwrap(), the log lines, and the
\* end of the block, which drops both guards.
LogProgress(w) ==
    /\ pc[w] = "log_average"
    /\ mutex_free(average_guard)
    /\ size_parameter_space - counter >= 0
    /\ counter_guard' = 0
    /\ average_guard' = 0
    /\ pc' = [pc EXCEPT ![w] = "create"]
    /\ UNCHANGED <<particles, iteration, results, tx, connection, store, counter>>
    /\ UNCHANGED <<api_log, step_vars, aux_vars>>

\* lib.rs 156-160: create_particles(None, &default_parameters), an empty results.
CreateParticles(w) ==
    /\ pc[w] = "create"
    /\ \E seed \in 0..(NumSeeds - 1) :
           particles' = [particles EXCEPT ![w] = create_particles(default_parameters, seed)]
    /\ iteration' = [iteration EXCEPT ![w] = 0]
    /\ results' = [results EXCEPT ![w] = <<>>]
    /\ pc' = [pc EXCEPT ![w] = "iterate"]
    /\ UNCHANGED <<tx, connection, store, counter, counter_guard, average_guard>>
    /\ UNCHANGED <<api_log, step_vars, aux_vars>>

\* The state vectors of one iteration (lib.rs 163-173); None when a kind or
\* its id is missing (the unwrap panics).
state_vectors_of(stepped_particles, parameters) ==
    IF \E n \in 1..Len(stepped_particles) :
           \/ particle_parameters_by_index(parameters, stepped_particles[n].index) = None
           \/ unwrap(particle_parameters_by_index(parameters, stepped_particles[n].index)).id = None
    THEN None
    ELSE Some([n \in 1..Len(stepped_particles) |->
                 to_state_vector(stepped_particles[n], parameters.bucket_size,
                     unwrap(unwrap(particle_parameters_by_index(
                         parameters, stepped_particles[n].index)).id))])

\* A loop that keeps only the state vectors of its last iteration.
collect_overwriting(collected, state_vectors) == state_vectors

\* lib.rs 174: results.append(&mut state_vectors).
collect(collected, state_vectors) == collected \o state_vectors

\* lib.rs 161-175: one iteration of the run's loop.  update_particles steps the
\* population under default_parameters; the state vectors take bucket_size and
\* the kind ids from the worker's own parameters.  An Err or a None panics.
Iterate(w) ==
    /\ pc[w] = "iterate"
    /\ LET stepped == update_particles(particles[w], default_parameters)
           vectors == IF stepped.ok
                      THEN state_vectors_of(stepped.val, parameters_of(w))
                      ELSE None
       IN  IF stepped.ok /\ vectors # None
           THEN /\ particles' = [particles EXCEPT ![w] = stepped.val]
                /\ results' = [results EXCEPT ![w] = collect(@, unwrap(vectors))]
                /\ iteration' = [iteration EXCEPT ![w] = @ + 1]
                /\ pc' = [pc EXCEPT ![w] =
                            IF iteration[w] + 1 = Iterations
                            THEN "lock_connection" ELSE "iterate"]
           ELSE /\ pc' = [pc EXCEPT ![w] = "panicked"]
                /\ UNCHANGED <<particles, results, iteration>>
    /\ UNCHANGED <<tx, connection, store, counter, counter_guard, average_guard>>
    /\ UNCHANGED <<api_log, step_vars, aux_vars>>

\* lib.rs 177-178: connection.lock().unwrap().  A poisoned mutex hands out an
\* Err whose unwrap panics; the guard inside the Err is dropped at once.
LockConnection(w) ==
    /\ pc[w] = "lock_connection"
    /\ mutex_free(connection.holder)
    /\ IF connection.poisoned
       THEN /\ pc' = [pc EXCEPT ![w] = "poisoned"]
            /\ UNCHANGED connection
       ELSE /\ pc' = [pc EXCEPT ![w] = "begin"]
            /\ connection' = [connection EXCEPT !.holder = w]
    /\ UNCHANGED <<particles, iteration, results, tx, store, counter,
                   counter_guard, average_guard>>
    /\ UNCHANGED <<api_log, step_vars, aux_vars>>

\* lib.rs 179: create_transaction_provider(&mut guard).unwrap(), succeeding.
CreateTransaction(w) ==
    /\ pc[w] = "begin"
    /\ tx' = [tx EXCEPT ![w] = create_transaction_provider(store)]
    /\ pc' = [pc EXCEPT ![w] = IF results[w] = <<>> THEN "commit" ELSE "increment"]
    /\ UNCHANGED <<particles, iteration, results, connection, store, counter,
                   counter_guard, average_guard>>
    /\ UNCHANGED <<api_log, step_vars, aux_vars>>

\* lib.rs 180-182: increment_state_count(&result, &tx_provider).unwrap() for
\* the next result, succeeding.
IncrementStateCount(w) ==
    /\ pc[w] = "increment"
    /\ tx' = [tx EXCEPT ![w].table = persist_state_count(Head(results[w]), @)]
    /\ results' = [results EXCEPT ![w] = Tail(@)]
    /\ pc' = [pc EXCEPT ![w] = IF Tail(results[w]) = <<>> THEN "commit" ELSE "increment"]
    /\ UNCHANGED <<particles, iteration, connection, store, counter,
                   counter_guard, average_guard>>
    /\ UNCHANGED <<api_log, step_vars, aux_vars>>

\* lib.rs 183: commit_transaction(tx_provider).unwrap(), succeeding.
CommitTransaction(w) ==
    /\ pc[w] = "commit"
    /\ store' = commit_transaction(tx[w], store)
    /\ tx' = [tx EXCEPT ![w] = NoTransaction]
    /\ pc' = [pc EXCEPT ![w] = "count"]
    /\ UNCHANGED <<particles, iteration, results, connection, counter,
                   counter_guard, average_guard>>
    /\ UNCHANGED <<api_log, step_vars, aux_vars>>

\* A persistence call whose Err is dropped instead of unwrapped: the closure
\* goes on to count the run although nothing was committed.
PersistenceFailure_swallowed(w) ==
    /\ pc[w] \in {"begin", "increment", "commit"}
    /\ store' = rollback_transaction(tx[w], store)
    /\ tx' = [tx EXCEPT ![w] = NoTransaction]
    /\ pc' = [pc EXCEPT ![w] = "count"]
    /\ UNCHANGED <<particles, iteration, results, connection, counter, counter_guard,
                   average_guard>>
    /\ UNCHANGED <<api_log, step_vars, aux_vars>>

\* lib.rs 179, 181, 183: the persistence call returns Err and its unwrap
\* panics.  Unwinding drops tx_provider (a rollback) and then the guard of the
\* connection, which poisons the mutex.
PersistenceFailure(w) ==
    /\ pc[w] \in {"begin", "increment", "commit"}
    /\ store' = rollback_transaction(tx[w], store)
    /\ tx' = [tx EXCEPT ![w] = NoTransaction]
    /\ connection' = [holder |-> 0, poisoned |-> TRUE]
    /\ pc' = [pc EXCEPT ![w] = "panicked"]
    /\ UNCHANGED <<particles, iteration, results, counter, counter_guard,
                   average_guard>>
    /\ UNCHANGED <<api_log, step_vars, aux_vars>>

\* lib.rs 185-186: counter.lock().unwrap(); *counter += 1.
CountRun(w) ==
    /\ pc[w] = "count"
    /\ mutex_free(counter_guard)
    /\ counter_guard' = w
    /\ counter' = counter + 1
    /\ pc' = [pc EXCEPT ![w] = "average"]
    /\ UNCHANGED <<particles, iteration, results, tx, connection, store,
                   average_guard>>
    /\ UNCHANGED <<api_log, step_vars, aux_vars>>

\* lib.rs 188-192: average_run_time.lock().unwrap(), the new average (a wall
\* clock value, not modelled), and the end of the closure, which drops the
\* guards of the average, the counter and the connection.
UpdateAverage(w) ==
    /\ pc[w] = "average"
    /\ mutex_free(average_guard)
    /\ counter_guard' = 0
    /\ connection' = [connection EXCEPT !.holder = 0]
    /\ pc' = [pc EXCEPT ![w] = "done"]
    /\ UNCHANGED <<particles, iteration, results, tx, store, counter, average_guard>>
    /\ UNCHANGED <<api_log, step_vars, aux_vars>>

\* The process is killed: the memory of every worker is lost, open
\* transactions are rolled back when the store is next opened.
Crash ==
    /\ \E w \in Workers : pc[w] \notin {"done", "panicked", "poisoned", "crashed"}
    /\ store' = store
    /\ pc' = [w \in Workers |-> "crashed"]
    /\ particles' = [w \in Workers |-> <<>>]
    /\ iteration' = [w \in Workers |-> 0]
    /\ results' = [w \in Workers |-> <<>>]
    /\ tx' = [w \in Workers |-> NoTransaction]
    /\ connection' = [holder |-> 0, poisoned |-> FALSE]
    /\ counter' = 0
    /\ counter_guard' = 0
    /\ average_guard' = 0
    /\ UNCHANGED <<api_log, step_vars, aux_vars>>

SweepNext ==
    \/ \E w \in Workers : LogLockCounter(w)
    \/ \E w \in Workers : LogProgress(w)
    \/ \E w \in Workers : CreateParticles(w)
    \/ \E w \in Workers : Iterate(w)
    \/ \E w \in Workers : LockConnection(w)
    \/ \E w \in Workers : CreateTransaction(w)
    \/ \E w \in Workers : IncrementStateCount(w)
    \/ \E w \in Workers : CommitTransaction(w)
    \/ \E w \in Workers : PersistenceFailure(w)
    \/ \E w \in Workers : CountRun(w)
    \/ \E w \in Workers : UpdateAverage(w)
    \/ Crash

vars == <<sweep_vars, api_log, step_vars, aux_vars>>

\* The integrator machine at rest.
StepIdle ==
    /\ step_pc = "idle"
    /\ population = <<>>
    /\ step_parameters = default_parameters
    /\ clones = Clones(<<>>)
    /\ step_i = 0
    /\ step_j = 0
    /\ started = <<>>
    /\ applied = <<>>
    /\ steps_done = 0

\* The particle harness at rest.
ParticleIdle ==
    /\ subject = <<>>
    /\ subject_before = <<>>
    /\ method = [name |-> "none"]

\* The lookup harness at rest.
LookupIdle ==
    /\ lookup_parameters = default_parameters
    /\ lookup_args = <<>>
    /\ lookup_result = None
    /\ lookup_calls = 0

\* parameter_space not called.
SpaceIdle ==
    /\ space_call = 0
    /\ space_index = <<0, 0, 0, 0, 0, 0, 0>>
    /\ space_len = 0
    /\ space_last = None

\* The three tables of a migrated store with no row (persistence.rs 9-44).
EmptyDatabase ==
    [run_parameters |-> <<>>, particle_parameters |-> <<>>, interactions |-> <<>>]

\* Nothing persisted, no transaction.
PersistIdle ==
    /\ database = EmptyDatabase
    /\ persist_tx = EmptyDatabase
    /\ persisting = <<>>
    /\ persist_pc = "idle"
    /\ persisted = <<>>

\* The discretizer not called.
DiscretizeIdle ==
    /\ disc_particle = <<>>
    /\ disc_bucket_size = 0
    /\ disc_vector = None

\* The render loop not started.
FrameIdle ==
    /\ frame_pc = "idle"
    /\ frame_parameters = default_parameters
    /\ frame_particles = <<>>
    /\ created_under = default_parameters
    /\ iteration_step = 0

\* No particle created.
LifeIdle ==
    /\ life_particle = <<>>
    /\ life_parameters = default_parameters
    /\ life_created_with = 0
    /\ life_calls = 0

LateIdle == PersistIdle /\ DiscretizeIdle /\ FrameIdle /\ LifeIdle

Init ==
    /\ SweepInit /\ api_log = <<>> /\ StepIdle /\ ParticleIdle /\ LookupIdle /\ SpaceIdle
    /\ LateIdle

Next == SweepNext

Spec == Init /\ [][Next]_vars

\* ------------------------------------- the sweep with no operation failing

\* One step of the closure of worker w: lib.rs 137-192 with every unwrap
\* succeeding.
WorkerStep(w) ==
    \/ LogLockCounter(w)
    \/ LogProgress(w)
    \/ CreateParticles(w)
    \/ Iterate(w)
    \/ LockConnection(w)
    \/ CreateTransaction(w)
    \/ IncrementStateCount(w)
    \/ CommitTransaction(w)
    \/ CountRun(w)
    \/ UpdateAverage(w)

FairNext == \E w \in Workers : WorkerStep(w)

\* The positions of a worker in its closure.
ProgramPoints ==
    {"start", "log_average", "create", "iterate", "lock_connection", "begin",
     "increment", "commit", "count", "average", "done"}

\* The thread of worker w can run: its closure has not returned and the Mutex
\* it is about to lock, if any, is free.
Runnable(w) ==
    /\ pc[w] # "done"
    /\ pc[w] \in {"start", "count"} => mutex_free(counter_guard)
    /\ pc[w] \in {"log_average", "average"} => mutex_free(average_guard)
    /\ pc[w] = "lock_connection" => mutex_free(connection.holder)

\* The thread of worker w is given a turn: it moves on in its closure (to
\* another position, or to the next iteration of its loop).  Under FairNext
\* these are the steps WorkerStep(w) and no others.
Scheduled(w) ==
    /\ Runnable(w)
    /\ \E p \in ProgramPoints : \E n \in 0..Iterations :
           /\ p # pc[w] \/ n # iteration[w]
           /\ pc' = [pc EXCEPT ![w] = p]
           /\ iteration' = [iteration EXCEPT ![w] = n]

\* par_iter().for_each runs every closure on a thread of the pool, and a
\* thread that can run is eventually given a turn.
SpecFair ==
    Init /\ [][FairNext]_vars /\ \A w \in Workers : WF_<<pc, iteration>>(Scheduled(w))

\* ------------------------------------------------------ the store harness

\* Callers of the store in the way of test_persist_state_count and of the
\* sweep's workers: a caller takes the connection, opens a transaction, issues
\* increments of state vectors and commits or drops the transaction, which
\* gives the connection back.  The first vector is the test's; the second
\* falls into the same buckets, the third into others.
TestVectors ==
    { StateVector_new(1, <<0, 0, 0>>, <<0, 0, 0>>, 10, 0),
      StateVector_new(1, <<5, 0, -5>>, <<0, 9, 0>>, 10, 0),
      StateVector_new(1, <<25, 0, 0>>, <<0, 0, 0>>, 10, 0) }

TestKeys == {Key(v) : v \in TestVectors}

Logged(op, key) == [op |-> op, key |-> key]

StoreInit ==
    /\ SweepInit /\ api_log = <<>> /\ StepIdle /\ ParticleIdle /\ LookupIdle /\ SpaceIdle
    /\ LateIdle

\* connection.lock() and create_transaction_provider(&mut guard).
StoreBegin(w) ==
    /\ Len(api_log) < MaxOps
    /\ ~tx[w].open
    /\ mutex_free(connection.holder)
    /\ connection' = [connection EXCEPT !.holder = w]
    /\ tx' = [tx EXCEPT ![w] = create_transaction_provider(store)]
    /\ api_log' = Append(api_log, Logged("begin", <<>>))
    /\ UNCHANGED <<pc, particles, iteration, results, store, counter,
                   counter_guard, average_guard, step_vars, aux_vars>>

\* persist_state_count(&state_vector, &tx_provider).
StoreIncrement(w, state_vector) ==
    /\ Len(api_log) < MaxOps
    /\ tx[w].open
    /\ tx' = [tx EXCEPT ![w].table = persist_state_count(state_vector, @)]
    /\ api_log' = Append(api_log, Logged("increment", Key(state_vector)))
    /\ UNCHANGED <<pc, particles, iteration, results, connection, store, counter,
                   counter_guard, average_guard, step_vars, aux_vars>>

\* commit_transaction(tx_provider); the guard is dropped.
StoreCommit(w) ==
    /\ Len(api_log) < MaxOps
    /\ tx[w].open
    /\ store' = commit_transaction(tx[w], store)
    /\ tx' = [tx EXCEPT ![w] = NoTransaction]
    /\ connection' = [connection EXCEPT !.holder = 0]
    /\ api_log' = Append(api_log, Logged("commit", <<>>))
    /\ UNCHANGED <<pc, particles, iteration, results, counter,
                   counter_guard, average_guard, step_vars, aux_vars>>

\* tx_provider dropped without commit; the guard is dropped.
StoreRollback(w) ==
    /\ Len(api_log) < MaxOps
    /\ tx[w].open
    /\ store' = rollback_transaction(tx[w], store)
    /\ tx' = [tx EXCEPT ![w] = NoTransaction]
    /\ connection' = [connection EXCEPT !.holder = 0]
    /\ api_log' = Append(api_log, Logged("rollback", <<>>))
    /\ UNCHANGED <<pc, particles, iteration, results, counter,
                   counter_guard, average_guard, step_vars, aux_vars>>

StoreNext ==
    \/ \E w \in Workers : StoreBegin(w)
    \/ \E w \in Workers : \E state_vector \in TestVectors : StoreIncrement(w, state_vector)
    \/ \E w \in Workers : StoreCommit(w)
    \/ \E w \in Workers : StoreRollback(w)

SpecStore == StoreInit /\ [][StoreNext]_vars

\* -------------------------------------------------- the integrator machine

\* update_particles run one inner-loop iteration at a time.  The population is
\* drawn as create_particles draws it (kinds in any order, one seed); the
\* parameters of the call are the default ones with friction, gravity
\* constant and border as the sliders or a test may have set them.
StepParameterSets ==
    { [default_parameters EXCEPT !.friction = f, !.gravity_constant = g, !.border = b] :
        f \in {0, 5}, g \in {0, 2}, b \in {15, 200} }

KindIndices == {default_parameters.particle_parameters[k].index :
                   k \in 1..Len(default_parameters.particle_parameters)}

\* The kind indices a particle handed to update_particles may carry: those of
\* the parameters and the first one past them (Particle.index is a free usize).
ParticleIndices == KindIndices \cup {Len(default_parameters.particle_parameters)}

\* The mass of a particle of a kind; a particle of no kind gets the lightest.
mass_of_kind(index) ==
    IF particle_parameters_by_index(default_parameters, index) = None
    THEN default_parameters.particle_parameters[1].mass
    ELSE unwrap(particle_parameters_by_index(default_parameters, index)).mass

drawn_population(kinds, seed) ==
    [n \in 1..Len(kinds) |->
        Particle_new(kinds[n], default_parameters.border, mass_of_kind(kinds[n]),
            default_parameters.max_velocity, seed, 6 * (n - 1))]

NoCalls == [velocity |-> 0, friction |-> 0, position |-> 0]

StepInit ==
    /\ SweepInit
    /\ api_log = <<>>
    /\ step_pc = "idle"
    /\ \E n \in 1..MaxParticles : \E kinds \in [1..n -> ParticleIndices] :
         \E seed \in 0..(NumSeeds - 1) :
           population = drawn_population(kinds, seed)
    /\ step_parameters \in StepParameterSets
    /\ clones = Clones(<<>>)
    /\ step_i = 0
    /\ step_j = 0
    /\ started = <<>>
    /\ applied = <<>>
    /\ steps_done = 0
    /\ ParticleIdle /\ LookupIdle /\ SpaceIdle /\ LateIdle

\* lib.rs 378-382: the clones are taken, the outer loop starts.
StepBegin ==
    /\ step_pc \in {"idle", "done"}
    /\ steps_done < MaxSteps
    /\ clones' = Clones(population)
    /\ started' = population
    /\ applied' = [n \in 1..Len(population) |-> NoCalls]
    /\ step_i' = 1
    /\ step_j' = 1
    /\ step_pc' = "loop"
    /\ UNCHANGED <<population, step_parameters, steps_done, sweep_vars, api_log, aux_vars>>

\* lib.rs 383-386: i == j, continue.
StepSkipSelf ==
    /\ step_pc = "loop"
    /\ step_i <= Len(population)
    /\ step_j <= Len(population)
    /\ step_i = step_j
    /\ step_j' = step_j + 1
    /\ UNCHANGED <<step_pc, population, step_parameters, clones, step_i, started,
                   applied, steps_done, sweep_vars, api_log, aux_vars>>

\* lib.rs 387-396: the lookup, then update_velocity, apply_friction and
\* update_position on particle i; an Err of the lookup ends the step.
StepPair ==
    /\ step_pc = "loop"
    /\ step_i <= Len(population)
    /\ step_j <= Len(population)
    /\ step_i # step_j
    /\ LET r == pair_body(population[step_i], step_j, clones, step_parameters)
       IN  IF r.ok
           THEN /\ population' = [population EXCEPT ![step_i] = r.val]
                /\ applied' = [applied EXCEPT ![step_i] =
                                 [velocity |-> @.velocity + 1,
                                  friction |-> @.friction + 1,
                                  position |-> @.position + 1]]
                /\ step_j' = step_j + 1
                /\ UNCHANGED step_pc
           ELSE /\ step_pc' = "failed"
                /\ UNCHANGED <<population, applied, step_j>>
    /\ UNCHANGED <<step_parameters, clones, step_i, started, steps_done,
                   sweep_vars, api_log, aux_vars>>

\* lib.rs 382-383: the inner loop is over, the next particle.
StepNextParticle ==
    /\ step_pc = "loop"
    /\ step_i <= Len(population)
    /\ step_j > Len(population)
    /\ step_i' = step_i + 1
    /\ step_j' = 1
    /\ UNCHANGED <<step_pc, population, step_parameters, clones, started, applied,
                   steps_done, sweep_vars, api_log, aux_vars>>

\* lib.rs 400: Ok(()).
StepReturn ==
    /\ step_pc = "loop"
    /\ step_i > Len(population)
    /\ step_pc' = "done"
    /\ steps_done' = steps_done + 1
    /\ UNCHANGED <<population, step_parameters, clones, step_i, step_j, started,
                   applied, sweep_vars, api_log, aux_vars>>

StepNext ==
    \/ StepBegin
    \/ StepSkipSelf
    \/ StepPair
    \/ StepNextParticle
    \/ StepReturn

SpecStep == StepInit /\ [][StepNext]_vars

\* The machine computes what update_particles computes.
StepMachineAgrees ==
    step_pc = "done" => update_particles(started, step_parameters) = Ok(population)

\* ----------------------------------------------------- the particle harness

\* A mass whose product with itself and a gravity constant leaves the finite
\* range of the grid.
LargeMass == 40000

\* One method of Particle called once on a particle built as a test builds it.
SubjectPositions == {<<0, 0, 0>>, <<3, 4, 0>>, <<14, 0, 0>>}

SubjectVelocities == {<<0, 0, 0>>, <<20, 0, 0>>, <<-5, 10, 19>>}

Subjects ==
    UNION {{[index |-> kind, position |-> position, velocity |-> velocity,
             mass |-> mass, max_velocity |-> default_parameters.max_velocity] :
               position \in SubjectPositions, velocity \in SubjectVelocities,
               mass \in {mass_of_kind(kind), LargeMass}} : kind \in KindIndices}

\* The other particle of a pair: its position, kind and mass.
Others ==
    UNION {{[position |-> position, index |-> kind, mass |-> mass] :
               position \in {<<0, 0, 0>>, <<1, 0, 0>>, <<3, 4, 0>>, <<2, 1, 2>>},
               mass \in {mass_of_kind(kind), LargeMass}} : kind \in KindIndices}

\* The Parameters of a call: the default ones with the scalars varied.
ParticleParameterSets ==
    { [default_parameters EXCEPT !.friction = f, !.gravity_constant = g,
                                 !.border = b, !.timestep = t] :
        f \in {0, 5, 2000}, g \in {0, 2, 6}, b \in {15, 200}, t \in {1, 3} }

ParticleInit ==
    /\ SweepInit /\ api_log = <<>> /\ StepIdle /\ LookupIdle /\ SpaceIdle /\ LateIdle
    /\ subject \in Subjects
    /\ subject_before = subject
    /\ method = [name |-> "none"]

\* lib.rs 387-394: the lookup for the pair and particle.update_velocity(..).
CallUpdateVelocity(other, parameters) ==
    /\ method.name = "none"
    /\ interaction_by_indices(parameters, subject.index, other.index).ok
    /\ LET interaction_type ==
               interaction_by_indices(parameters, subject.index, other.index).val
       IN  /\ subject' = update_velocity(subject, other.position, other.mass,
                             interaction_type, parameters.gravity_constant)
           /\ method' = [name |-> "update_velocity", other |-> other,
                         interaction_type |-> interaction_type,
                         parameters |-> parameters]
    /\ UNCHANGED <<subject_before, sweep_vars, api_log, step_vars, lookup_vars,
                   space_vars, late_vars>>

\* lib.rs 395: particle.apply_friction(parameters.friction).
CallApplyFriction(parameters) ==
    /\ method.name = "none"
    /\ subject' = apply_friction(subject, parameters.friction)
    /\ method' = [name |-> "apply_friction", parameters |-> parameters]
    /\ UNCHANGED <<subject_before, sweep_vars, api_log, step_vars, lookup_vars,
                   space_vars, late_vars>>

\* lib.rs 396: particle.update_position(parameters).
CallUpdatePosition(parameters) ==
    /\ method.name = "none"
    /\ subject' = update_position(subject, parameters)
    /\ method' = [name |-> "update_position", parameters |-> parameters]
    /\ UNCHANGED <<subject_before, sweep_vars, api_log, step_vars, lookup_vars,
                   space_vars, late_vars>>

ParticleNext ==
    \/ \E other \in Others : \E parameters \in ParticleParameterSets :
           CallUpdateVelocity(other, parameters)
    \/ \E parameters \in ParticleParameterSets : CallApplyFriction(parameters)
    \/ \E parameters \in ParticleParameterSets : CallUpdatePosition(parameters)

SpecParticle == ParticleInit /\ [][ParticleNext]_vars

\* ------------------------------------------------------ the lookup harness

\* Largest number of kinds of the Parameters a lookup is made on.
MaxKinds == 3

\* Lookups made on one Parameters.
MaxLookups == 2

\* Length of the interaction table of k kinds.
table_len(k) == (k * (k + 1)) \div 2

\* k kinds, indexed 0 .. k-1.
kinds_of(k) == [n \in 1..k |-> [id |-> None, mass |-> 1, index |-> n - 1]]

\* Interaction tables of k kinds: the uniform ones and those with one entry
\* that differs from all others, which tell every position from every other.
Tables(k) ==
    {[m \in 1..table_len(k) |-> b] : b \in InteractionType}
    \cup {[m \in 1..table_len(k) |-> IF m = hot THEN a ELSE b] :
            hot \in 1..table_len(k), a \in InteractionType, b \in InteractionType}

LookupParameterSets ==
    UNION {{[default_parameters EXCEPT !.particle_parameters = kinds_of(k),
                                       !.interactions = table] :
               table \in Tables(k)} : k \in 0..MaxKinds}

LookupInit ==
    /\ SweepInit /\ api_log = <<>> /\ StepIdle /\ ParticleIdle /\ SpaceIdle /\ LateIdle
    /\ lookup_parameters \in LookupParameterSets
    /\ lookup_args = <<>>
    /\ lookup_result = None
    /\ lookup_calls = 0

\* parameters.interaction_by_indices(i, j).
Lookup(i, j) ==
    /\ lookup_calls < MaxLookups
    /\ lookup_args' = <<i, j>>
    /\ lookup_result' = Some(interaction_by_indices(lookup_parameters, i, j))
    /\ lookup_calls' = lookup_calls + 1
    /\ UNCHANGED <<lookup_parameters, sweep_vars, api_log, step_vars, particle_vars,
                   space_vars, late_vars>>

LookupNext == \E i \in 0..MaxKinds : \E j \in 0..MaxKinds : Lookup(i, j)

SpecLookup == LookupInit /\ [][LookupNext]_vars

\* ----------------------------------------------------- parameter_space()

\* Calls of parameter_space compared.
NumCalls == 2

\* The lengths of the seven value lists, outermost loop first.
space_radix ==
    <<Len(amounts), Len(borders), Len(frictions), Len(timesteps),
      Len(gravity_constants), Len(max_velocities), Len(bucket_sizes)>>

\* A body pushed by loops nested with the friction around the border.
pushed_at_friction_outside(index) ==
    [ amount |-> amounts[index[1] + 1],
      border |-> borders[index[3] + 1],
      friction |-> frictions[index[2] + 1],
      timestep |-> timesteps[index[4] + 1],
      gravity_constant |-> gravity_constants[index[5] + 1],
      particle_parameters |-> template_particle_parameters,
      interactions |-> template_interactions,
      max_velocity |-> max_velocities[index[6] + 1],
      bucket_size |-> bucket_sizes[index[7] + 1] ]

\* The Parameters the innermost loop body pushes at the loop indices index
\* (0-based, outermost loop first).
pushed_at(index) ==
    [ amount |-> amounts[index[1] + 1],
      border |-> borders[index[2] + 1],
      friction |-> frictions[index[3] + 1],
      timestep |-> timesteps[index[4] + 1],
      gravity_constant |-> gravity_constants[index[5] + 1],
      particle_parameters |-> template_particle_parameters,
      interactions |-> template_interactions,
      max_velocity |-> max_velocities[index[6] + 1],
      bucket_size |-> bucket_sizes[index[7] + 1] ]

\* The loop indices after the body ran at index: the loop at level (7 the
\* innermost) steps; a loop that is exhausted restarts and the one around it
\* steps.  When the outermost is exhausted its index is Len(amounts).
RECURSIVE advance(_, _)
advance(index, level) ==
    IF level = 1 THEN [index EXCEPT ![1] = @ + 1]
    ELSE IF index[level] + 1 < space_radix[level]
    THEN [index EXCEPT ![level] = @ + 1]
    ELSE advance([index EXCEPT ![level] = 0], level - 1)

\* The seven nested loops are over.
space_returned == space_index[1] >= space_radix[1]

SpaceInit ==
    /\ SweepInit /\ api_log = <<>> /\ StepIdle /\ ParticleIdle /\ LookupIdle /\ LateIdle
    /\ space_call \in 1..NumCalls
    /\ space_index = <<0, 0, 0, 0, 0, 0, 0>>
    /\ space_len = 0
    /\ space_last = None

\* parameters.rs 118-171: one run of the innermost loop body, a push.
SpacePush ==
    /\ space_call > 0
    /\ ~space_returned
    /\ space_last' = Some(pushed_at(space_index))
    /\ space_len' = space_len + 1
    /\ space_index' = advance(space_index, 7)
    /\ UNCHANGED <<space_call, sweep_vars, api_log, step_vars, particle_vars,
                   lookup_vars, late_vars>>

SpaceNext == SpacePush

SpecSpace == SpaceInit /\ [][SpaceNext]_vars

\* ------------------------------------------------- persisting parameters

\* Parameters one transaction persists (the program persists all 17280).
MaxPersisted == 2

\* The Parameters of test_persist_parameters: four kinds, ten interactions.
test_persist_parameters_input ==
    [ amount |-> 1,
      border |-> 200,
      friction |-> 0,
      timestep |-> 1,
      gravity_constant |-> 2,
      particle_parameters |->
          << [id |-> None, mass |-> 3, index |-> 0],
             [id |-> None, mass |-> 250, index |-> 1],
             [id |-> None, mass |-> 10000, index |-> 2],
             [id |-> None, mass |-> 10000, index |-> 3] >>,
      interactions |->
          << Attraction,  \* 0 <-> 0
             Neutral,     \* 1 <-> 0
             Repulsion,   \* 2 <-> 0
             Repulsion,   \* 3 <-> 0
             Neutral,     \* 1 <-> 1
             Attraction,  \* 1 <-> 2
             Attraction,  \* 1 <-> 3
             Repulsion,   \* 2 <-> 2
             Repulsion,   \* 2 <-> 3
             Repulsion >>,\* 3 <-> 3
      max_velocity |-> 20,
      bucket_size |-> 10 ]

\* INSERT INTO run_parameters (..) VALUES (..): the row gets the next run_id
\* of the AUTOINCREMENT key (no row is ever deleted).
insert_run_parameters(db, parameters) ==
    [db EXCEPT !.run_parameters = Append(@,
        [ run_id |-> Len(db.run_parameters) + 1,
          amount |-> parameters.amount,
          border |-> parameters.border,
          timestep |-> parameters.timestep,
          gravity_constant |-> parameters.gravity_constant,
          friction |-> parameters.friction,
          max_velocity |-> parameters.max_velocity,
          bucket_size |-> parameters.bucket_size ])]

\* INSERT INTO particle_parameters (mass, ix, run_id) VALUES (..).
insert_particle_parameters(db, particle, parameters_id) ==
    [db EXCEPT !.particle_parameters = Append(@,
        [ id |-> Len(db.particle_parameters) + 1,
          mass |-> particle.mass,
          ix |-> particle.index,
          run_id |-> parameters_id ])]

\* INSERT INTO interactions (interaction_type, parameter_id_0, parameter_id_1).
insert_interaction(db, interaction, parameter_id_0, parameter_id_1) ==
    [db EXCEPT !.interactions = Append(@,
        [ id |-> Len(db.interactions) + 1,
          interaction_type |-> interaction,
          parameter_id_0 |-> parameter_id_0,
          parameter_id_1 |-> parameter_id_1 ])]

\* tx.get_last_insert_rowid() after an insert into particle_parameters.
last_particle_rowid(db) == Len(db.particle_parameters)

\* The loop of persist_parameters from the n-th kind on.  last is None before
\* the first kind and Some of the id and index of the kind before otherwise
\* (last_particle_id, last_particle_ix).  A kind after the first writes one
\* interactions row, for the kind before it and itself; a failing lookup
\* returns its error out of the function.
RECURSIVE persist_kinds(_, _, _, _, _)
persist_kinds(parameters, db, parameters_id, n, last) ==
    IF n > Len(parameters.particle_parameters) THEN [db |-> db, result |-> Ok(parameters_id)]
    ELSE LET particle == parameters.particle_parameters[n]
             with_kind == insert_particle_parameters(db, particle, parameters_id)
             particle_id == last_particle_rowid(with_kind)
             here == Some([id |-> particle_id, ix |-> particle.index])
         IN  IF last = None
             THEN persist_kinds(parameters, with_kind, parameters_id, n + 1, here)
             ELSE LET interaction ==
                          interaction_by_indices(parameters, unwrap(last).ix, particle.index)
                  IN  IF ~interaction.ok
                      THEN [db |-> with_kind, result |-> Err(interaction.err)]
                      ELSE persist_kinds(parameters,
                               insert_interaction(with_kind, interaction.val,
                                   unwrap(last).id, particle_id),
                               parameters_id, n + 1, here)

\* persist_parameters(&parameters, &tx): the tables of the transaction after
\* the call and what the call returns.  parameters is borrowed immutably: the
\* caller's Parameters are after the call what they were before it.
persist_parameters(parameters, db) ==
    LET with_run == insert_run_parameters(db, parameters)
        parameters_id == Len(with_run.run_parameters)
    IN  persist_kinds(parameters, with_run, parameters_id, 1, None)

\* Parameters whose second kind has an index beyond the kinds.
malformed_parameters ==
    [default_parameters EXCEPT !.particle_parameters =
        << [id |-> None, mass |-> 3, index |-> 0],
           [id |-> None, mass |-> 250, index |-> 5] >>]

\* The Parameters handed to persist_parameters: the test's, the default ones,
\* the first elements of the parameter space, Parameters of 0, 1 and 2 kinds
\* and malformed ones.
PersistParameterSets ==
    { test_persist_parameters_input, default_parameters, malformed_parameters,
      parameter_space_at(0), parameter_space_at(1) }
    \cup { [default_parameters EXCEPT !.particle_parameters = kinds_of(k),
                                      !.interactions = [m \in 1..table_len(k) |-> Neutral]] :
             k \in 0..2 }

PersistInit ==
    /\ SweepInit /\ api_log = <<>> /\ StepIdle /\ ParticleIdle /\ LookupIdle /\ SpaceIdle
    /\ database = EmptyDatabase
    /\ persist_tx = EmptyDatabase
    /\ DiscretizeIdle /\ FrameIdle /\ LifeIdle
    /\ \E n \in 1..MaxPersisted : persisting \in [1..n -> PersistParameterSets]
    /\ persist_pc = "idle"
    /\ persisted = <<>>

\* lib.rs 122-123, persistence.rs 220: create_transaction_provider on the
\* migrated store.
PersistBegin ==
    /\ persist_pc = "idle"
    /\ persist_tx' = database
    /\ persist_pc' = "open"
    /\ UNCHANGED <<database, persisting, persisted>>
    /\ UNCHANGED <<sweep_vars, api_log, step_vars, particle_vars, lookup_vars, space_vars,
                   disc_vars, frame_vars, life_vars>>

\* lib.rs 125-127, persistence.rs 261: persist_parameters(parameters,
\* &tx_provider).unwrap() for the next Parameters.  An Err panics: the
\* transaction is dropped without commit.
PersistParameters ==
    /\ persist_pc = "open"
    /\ Len(persisted) < Len(persisting)
    /\ LET r == persist_parameters(persisting[Len(persisted) + 1], persist_tx)
       IN  IF r.result.ok
           THEN /\ persist_tx' = r.db
                /\ persisted' = Append(persisted, r.result)
                /\ persist_pc' = "open"
           ELSE /\ persist_tx' = database
                /\ persisted' = Append(persisted, r.result)
                /\ persist_pc' = "panicked"
    /\ UNCHANGED <<database, persisting>>
    /\ UNCHANGED <<sweep_vars, api_log, step_vars, particle_vars, lookup_vars, space_vars,
                   disc_vars, frame_vars, life_vars>>

\* lib.rs 129, persistence.rs 262: tx_provider.commit().unwrap().
PersistCommit ==
    /\ persist_pc = "open"
    /\ Len(persisted) = Len(persisting)
    /\ database' = persist_tx
    /\ persist_pc' = "committed"
    /\ UNCHANGED <<persist_tx, persisting, persisted>>
    /\ UNCHANGED <<sweep_vars, api_log, step_vars, particle_vars, lookup_vars, space_vars,
                   disc_vars, frame_vars, life_vars>>

PersistNext == PersistBegin \/ PersistParameters \/ PersistCommit

SpecPersist == PersistInit /\ [][PersistNext]_vars

\* --------------------------------------------------- the state discretizer

\* Components of the positions and velocities discretized: on both sides of
\* zero, inside a bucket, on a bucket's edge and next to it.
DiscretizedComponents == {-20, -19, -10, -9, -1, 0, 1, 9, 10, 19}

DiscretizedVelocities == {<<0, 0, 0>>, <<-1, 9, -10>>, <<19, -19, 1>>, <<-9, 10, 20>>}

\* The particles discretized, one of mass 1 at rest at the origin among them.
DiscretizedParticles ==
    { [index |-> 0, position |-> <<x, y, z>>, velocity |-> velocity, mass |-> mass,
       max_velocity |-> default_parameters.max_velocity] :
        x \in DiscretizedComponents, y \in DiscretizedComponents,
        z \in DiscretizedComponents, velocity \in DiscretizedVelocities,
        mass \in {1, 250} }

\* The bucket sizes of parameter_space.
DiscretizedBucketSizes == {bucket_sizes[n] : n \in 1..Len(bucket_sizes)}

DiscretizeInit ==
    /\ SweepInit /\ api_log = <<>> /\ StepIdle /\ ParticleIdle /\ LookupIdle /\ SpaceIdle
    /\ PersistIdle /\ FrameIdle /\ LifeIdle
    /\ disc_particle \in DiscretizedParticles
    /\ disc_bucket_size \in DiscretizedBucketSizes
    /\ disc_vector = None

\* lib.rs 171: p.to_state_vector(parameters.bucket_size, particle_parameters_id).
Discretize ==
    /\ disc_vector = None
    /\ disc_vector' = Some(to_state_vector(disc_particle, disc_bucket_size, 0))
    /\ UNCHANGED <<disc_particle, disc_bucket_size>>
    /\ UNCHANGED <<sweep_vars, api_log, step_vars, particle_vars, lookup_vars,
                   space_vars, persist_vars, frame_vars, life_vars>>

DiscretizeNext == Discretize

SpecDiscretize == DiscretizeInit /\ [][DiscretizeNext]_vars

\* ------------------------------------------------------ interactive mode

\* Frames of the render loop in one behaviour.
MaxFrames == 3

\* What the user does to the side panel during one frame: nothing, a click
\* on Reset, or one slider moved to a value of its range.
FrameInputs ==
    { [widget |-> "none"], [widget |-> "reset"],
      [widget |-> "amount", value |-> 2],
      [widget |-> "max_velocity", value |-> 40],
      [widget |-> "friction", value |-> 10],
      [widget |-> "border", value |-> 50],
      [widget |-> "timestep", value |-> 2],
      [widget |-> "gravity_constant", value |-> 4] }
    \cup { [widget |-> "mass", kind |-> k, value |-> 500] :
             k \in 1..Len(default_parameters.particle_parameters) }

\* lib.rs 240-272: default_parameters after the sliders of the panel ran with
\* the frame's input.
edited(parameters, input) ==
    CASE input.widget = "amount" -> [parameters EXCEPT !.amount = input.value]
      [] input.widget = "max_velocity" -> [parameters EXCEPT !.max_velocity = input.value]
      [] input.widget = "friction" -> [parameters EXCEPT !.friction = input.value]
      [] input.widget = "border" -> [parameters EXCEPT !.border = input.value]
      [] input.widget = "timestep" -> [parameters EXCEPT !.timestep = input.value]
      [] input.widget = "gravity_constant" ->
             [parameters EXCEPT !.gravity_constant = input.value]
      [] input.widget = "mass" ->
             [parameters EXCEPT !.particle_parameters[input.kind].mass = input.value]
      [] OTHER -> parameters

\* lib.rs 243: ui.button("Reset").clicked().
reset_clicked(input) == input.widget = "reset"

FrameInit ==
    /\ SweepInit /\ api_log = <<>> /\ StepIdle /\ ParticleIdle /\ LookupIdle /\ SpaceIdle
    /\ PersistIdle /\ DiscretizeIdle /\ LifeIdle
    /\ frame_pc = "running"
    /\ frame_parameters = default_parameters
    /\ \E seed \in 0..(NumSeeds - 1) :
           frame_particles = create_particles(default_parameters, seed)
    /\ created_under = default_parameters
    /\ iteration_step = 0

\* lib.rs 225-292: one call of the render loop's closure.  update_particles
\* steps the population under default_parameters (an Err panics), then the
\* panel applies the frame's input, then iteration_step advances.
Frame(input, seed) ==
    /\ frame_pc = "running"
    /\ iteration_step < MaxFrames
    /\ LET stepped == update_particles(frame_particles, frame_parameters)
       IN  IF ~stepped.ok
           THEN /\ frame_pc' = "panicked"
                /\ UNCHANGED <<frame_parameters, frame_particles, created_under,
                               iteration_step>>
           ELSE /\ frame_pc' = "running"
                /\ frame_parameters' = edited(frame_parameters, input)
                /\ frame_particles' =
                       IF reset_clicked(input)
                       THEN create_particles(frame_parameters, seed)
                       ELSE stepped.val
                /\ created_under' =
                       IF reset_clicked(input) THEN frame_parameters ELSE created_under
                /\ iteration_step' = iteration_step + 1
    /\ UNCHANGED <<sweep_vars, api_log, step_vars, particle_vars, lookup_vars,
                   space_vars, persist_vars, disc_vars, life_vars>>

FrameNext == \E input \in FrameInputs : \E seed \in 0..(NumSeeds - 1) : Frame(input, seed)

SpecFrame == FrameInit /\ [][FrameNext]_vars

\* ------------------------------------------------- the life of a particle

\* Calls made on the particle in one behaviour.
MaxLifeCalls == 3

\* The max_velocity a population is created with: the default one and values
\* of parameter_space and of the slider.
LifeMaxVelocities == {5, default_parameters.max_velocity}

\* The other particle of a pair: at the particle's own position (distance 0),
\* next to it, or at a fixed place; of the mass of a kind.
LifeOthers(self) ==
    { [position |-> position, mass |-> mass] :
        position \in {self.position, VAdd(self.position, <<1, 0, 0>>), <<3, 4, 0>>},
        mass \in {template_particle_parameters[1].mass,
                  template_particle_parameters[3].mass} }

\* Gravity constants of a call: 1.0 and the largest the slider gives, 20.0.
LifeGravityConstants == {2, 40}

\* Frictions of a call: in [0, 2], the 2.0 of parameter_space among them.
LifeFrictions == {0, 5, 1000, 2000}

\* lib.rs 224, 244: create_particles(.., &default_parameters); the particle is
\* one of the population, built by Particle::new with the max_velocity of the
\* parameters as they are then.
LifeInit ==
    /\ SweepInit /\ api_log = <<>> /\ StepIdle /\ ParticleIdle /\ LookupIdle /\ SpaceIdle
    /\ PersistIdle /\ DiscretizeIdle /\ FrameIdle
    /\ \E max_velocity \in LifeMaxVelocities :
         /\ life_parameters = [default_parameters EXCEPT !.max_velocity = max_velocity]
         /\ life_created_with = max_velocity
         /\ \E kind \in KindIndices : \E seed \in 0..(NumSeeds - 1) :
                life_particle = Particle_new(kind, default_parameters.border,
                                    mass_of_kind(kind), max_velocity, seed, 0)
    /\ life_calls = 0

\* lib.rs 389-394: particle.update_velocity(..) for some other particle, some
\* interaction type and the gravity constant of the parameters.
LifeUpdateVelocity(other, interaction_type, gravity_constant) ==
    /\ life_calls < MaxLifeCalls
    /\ life_particle' = update_velocity(life_particle, other.position, other.mass,
                            interaction_type, gravity_constant)
    /\ life_calls' = life_calls + 1
    /\ UNCHANGED <<life_parameters, life_created_with>>
    /\ UNCHANGED <<sweep_vars, api_log, step_vars, particle_vars, lookup_vars,
                   space_vars, persist_vars, disc_vars, frame_vars>>

\* lib.rs 395: particle.apply_friction(parameters.friction).
LifeApplyFriction(friction) ==
    /\ life_calls < MaxLifeCalls
    /\ life_particle' = apply_friction(life_particle, friction)
    /\ life_calls' = life_calls + 1
    /\ UNCHANGED <<life_parameters, life_created_with>>
    /\ UNCHANGED <<sweep_vars, api_log, step_vars, particle_vars, lookup_vars,
                   space_vars, persist_vars, disc_vars, frame_vars>>

\* lib.rs 396: particle.update_position(parameters), the border and timestep
\* being what the sliders made them.
LifeUpdatePosition(border, timestep) ==
    /\ life_calls < MaxLifeCalls
    /\ life_particle' = update_position(life_particle,
                            [life_parameters EXCEPT !.border = border,
                                                    !.timestep = timestep])
    /\ life_calls' = life_calls + 1
    /\ UNCHANGED <<life_parameters, life_created_with>>
    /\ UNCHANGED <<sweep_vars, api_log, step_vars, particle_vars, lookup_vars,
                   space_vars, persist_vars, disc_vars, frame_vars>>

\* lib.rs 246-249: the Max. velocity slider writes default_parameters.max_velocity.
LifeEditMaxVelocity(max_velocity) ==
    /\ life_parameters.max_velocity # max_velocity
    /\ life_parameters' = [life_parameters EXCEPT !.max_velocity = max_velocity]
    /\ UNCHANGED <<life_particle, life_created_with, life_calls>>
    /\ UNCHANGED <<sweep_vars, api_log, step_vars, particle_vars, lookup_vars,
                   space_vars, persist_vars, disc_vars, frame_vars>>

LifeNext ==
    \/ \E other \in LifeOthers(life_particle) : \E interaction_type \in InteractionType :
         \E gravity_constant \in LifeGravityConstants :
           LifeUpdateVelocity(other, interaction_type, gravity_constant)
    \/ \E friction \in LifeFrictions : LifeApplyFriction(friction)
    \/ \E border \in {15, 200} : \E timestep \in {1, 3} :
           LifeUpdatePosition(border, timestep)
    \/ \E max_velocity \in LifeMaxVelocities : LifeEditMaxVelocity(max_velocity)

SpecLife == LifeInit /\ [][LifeNext]_vars

\* ------------------------------------------------------- claims: the sweep

\* Worker w takes the step that commits its transaction.
Commits(w) == pc[w] = "commit" /\ pc'[w] = "count"

\* The kind identifiers of the parameter set of worker w.
IdsOf(w) ==
    {unwrap(parameters_of(w).particle_parameters[k].id) :
        k \in 1..Len(parameters_of(w).particle_parameters)}

\* The particles of worker w whose kind carries the identifier id.
KindCount(w, id) ==
    Cardinality({n \in 1..Len(particles[w]) :
        unwrap(particle_parameters_by_index(
            parameters_of(w), particles[w][n].index)).id = Some(id)})

\* Sum of the counts of the records of a table that carry the identifier id.
SumOfKind(table, id) == SumOver(table, {k \in DOMAIN table : k[3] = id})

Pending(w) ==
    Len(results[w])
        + (IF tx[w].open THEN SumCounts(tx[w].table) - SumCounts(store) ELSE 0)

\* C4: write batching is per step.  The increments of a run that are not yet
\* committed never exceed one integrator step's worth, one per particle.
C4_BatchPerStep ==
    \A w \in Workers : Pending(w) <= Len(particles[w])

\* C5: failure isolation.  No worker is aborted by the persistence failure of
\* another one: a worker that reaches the connection is never turned away by
\* a lock the failure of another worker poisoned.
C5_FailureIsolation ==
    \A w \in Workers : pc[w] # "poisoned"

\* C8: each run simulates its own parameter set.  The population of worker w is
\* created from the parameters of w, and every integrator step of w is
\* update_particles under the parameters of w.
C8_OwnParameters ==
    [][ \A w \in Workers :
          /\ (pc[w] = "create" /\ pc'[w] = "iterate") =>
                 \E seed \in 0..(NumSeeds - 1) :
                     particles'[w] = create_particles(parameters_of(w), seed)
          /\ (pc[w] = "iterate" /\ iteration'[w] = iteration[w] + 1) =>
                 update_particles(particles[w], parameters_of(w)) = Ok(particles'[w])
      ]_vars

\* ------------------------------------------------------- claims: the store

\* The increments of key that the calls of log left committed, pending being
\* those of the transaction open at the head of log.
RECURSIVE CommittedIncrements(_, _, _)
CommittedIncrements(log, key, pending) ==
    IF log = <<>> THEN 0
    ELSE LET call == Head(log)
         IN  IF call.op = "increment"
             THEN CommittedIncrements(Tail(log), key,
                      pending + (IF call.key = key THEN 1 ELSE 0))
             ELSE IF call.op = "commit"
             THEN pending + CommittedIncrements(Tail(log), key, 0)
             ELSE CommittedIncrements(Tail(log), key, 0)

\* The count a table holds for key, 0 when it holds no record of it.
CountOf(table, key) == IF key \in DOMAIN table THEN table[key] ELSE 0

\* C6: upsert-increment.  The durable store holds a record for a key exactly
\* when an increment of it was committed, and its count is the number of
\* committed increments of that key: the first increment creates the record
\* at 1, each further one adds 1, an increment of another key adds nothing.
C6_UpsertIncrement ==
    /\ DOMAIN store \subseteq TestKeys
    /\ \A key \in TestKeys :
           /\ CountOf(store, key) = CommittedIncrements(api_log, key, 0)
           /\ key \in DOMAIN store <=> CommittedIncrements(api_log, key, 0) > 0

\* The key of the test was incremented once in each of two committed
\* transactions and stands at 2.
C6_Witness ==
    LET key == <<<<0, 0, 0>>, <<0, 0, 0>>, 0>>
    IN  /\ api_log = << Logged("begin", <<>>), Logged("increment", key),
                        Logged("commit", <<>>), Logged("begin", <<>>),
                        Logged("increment", key), Logged("commit", <<>>) >>
        /\ DOMAIN store = {key}
        /\ store[key] = 2

\* C7: every record has count >= 1, and no step removes a committed record or
\* lowers its count.
C7_CountsMonotone ==
    [][ /\ \A key \in DOMAIN store :
             /\ store[key] >= 1
             /\ key \in DOMAIN store'
             /\ store'[key] >= store[key]
        /\ \A key \in DOMAIN store' : store'[key] >= 1
        /\ \A w \in Workers : \A key \in DOMAIN tx'[w].table : tx'[w].table[key] >= 1
      ]_vars

\* Two committed records, written by two callers, one of the records
\* incremented again in an open transaction.
C7_Witness ==
    /\ Cardinality(DOMAIN store) = 2
    /\ \E w \in Workers :
         /\ tx[w].open
         /\ \E key \in DOMAIN store : tx[w].table[key] > store[key]

\* -------------------------------------------------- claims: the integrator

\* C9: step structure.  In one integrator step over n particles no particle
\* gets friction or a position update before all its n-1 pair evaluations are
\* done, none gets either more than once, and when the step returns every
\* particle got each exactly once.
C9_StepStructure ==
    \A n \in 1..Len(applied) :
        /\ applied[n].friction <= 1
        /\ applied[n].position <= 1
        /\ (applied[n].friction > 0 \/ applied[n].position > 0) =>
               applied[n].velocity = Len(applied) - 1
        /\ step_pc = "done" =>
               (applied[n].friction = 1 /\ applied[n].position = 1)

\* C10: after one step on a population of exactly one particle with friction 0
\* and gravity constant 0, whose tentative position is within the border, the
\* position is the old position + velocity * timestep and the velocity is the
\* old one.
C10_SingleParticleStep ==
    ( /\ step_pc = "done"
      /\ Len(started) = 1
      /\ step_parameters.friction = 0
      /\ step_parameters.gravity_constant = 0
      /\ Magnitude2(compute_updated_position(started[1], step_parameters.timestep))
             <= step_parameters.border * step_parameters.border )
    => /\ population[1].position =
              compute_updated_position(started[1], step_parameters.timestep)
       /\ population[1].velocity = started[1].velocity

\* The force evaluation the inner loop is about to make: particle step_i
\* against the clone of particle step_j.
AtPair ==
    /\ step_pc = "loop"
    /\ step_i <= Len(population)
    /\ step_j <= Len(population)
    /\ step_i # step_j
    /\ interaction_by_indices(step_parameters, population[step_i].index,
                              clones.id_clones[step_j]).ok

\* update_velocity of particle p of the step against particle q, both taken
\* from the population from.
force_evaluation(p, from, q) ==
    update_velocity(p, from[q].position, from[q].mass,
        interaction_by_indices(step_parameters, p.index, from[q].index).val,
        step_parameters.gravity_constant)

\* C11: snapshot ordering.  Every force evaluation of a step takes the other
\* particle's position and mass as they were when the step began, and yields
\* the velocity that the positions at the start of the step yield: no
\* position updated earlier in the same step enters it.
C11_SnapshotOrdering ==
    AtPair =>
        /\ clones.postion_clones[step_j] = started[step_j].position
        /\ clones.mass_clones[step_j] = started[step_j].mass
        /\ update_velocity(population[step_i], clones.postion_clones[step_j],
               clones.mass_clones[step_j],
               interaction_by_indices(step_parameters, population[step_i].index,
                   clones.id_clones[step_j]).val,
               step_parameters.gravity_constant).velocity
             = force_evaluation(
                   [population[step_i] EXCEPT !.position = started[step_i].position],
                   started, step_j).velocity

\* C18: a step over a population in which some particle carries a kind index
\* that is no kind of the parameters fails with the index error, whatever the
\* size of the population: it never returns Ok.
C18_IndexErrorAborts ==
    (/\ step_pc \in {"done", "failed"}
     /\ \E n \in 1..Len(started) :
            started[n].index >= Len(step_parameters.particle_parameters))
    => /\ step_pc = "failed"
       /\ ~update_particles(started, step_parameters).ok
       /\ update_particles(started, step_parameters).err = "Index out of bounds"

\* ------------------------------------------- claims: the methods of Particle

\* The call made was update_velocity.
VelocityCalled == method.name = "update_velocity"

ForceApplied ==
    /\ VelocityCalled
    /\ method.interaction_type # Neutral
    /\ magnitude(VSub(method.other.position, subject_before.position)) > 0

\* C13: velocity clamping.  After a force application every velocity axis is
\* a number of magnitude <= max_velocity; an axis computed beyond the limit is
\* sign * max_velocity and an axis computed within it is as computed.
C13_VelocityClamped ==
    ForceApplied =>
        LET computed == accelerated(subject_before, method.other.position,
                            method.other.mass, method.interaction_type,
                            method.parameters.gravity_constant)
        IN  \A a \in 1..3 :
              /\ subject.velocity[a] # NaN
              /\ Abs(subject.velocity[a]) <= subject.max_velocity
              /\ computed[a] # NaN
              /\ Abs(computed[a]) > subject.max_velocity =>
                     subject.velocity[a] = Signum(computed[a]) * subject.max_velocity
              /\ Abs(computed[a]) <= subject.max_velocity =>
                     subject.velocity[a] = computed[a]

\* The call made was update_position.
PositionCalled == method.name = "update_position"

\* The tentative position of the call lies beyond the border.
BeyondBorder ==
    Magnitude2(VAdd(subject_before.position,
                    VScale(subject_before.velocity, method.parameters.timestep)))
        > method.parameters.border * method.parameters.border

\* C14: boundary reflection.  When the tentative position p + v * timestep
\* lies beyond the border, update_position negates the whole velocity and
\* commits p + (-v) * timestep, even when that lies beyond the border too;
\* otherwise it commits the tentative position and leaves the velocity.
C14_BoundaryReflection ==
    PositionCalled =>
        LET p == subject_before.position
            v == subject_before.velocity
            t == method.parameters.timestep
        IN  IF BeyondBorder
            THEN /\ subject.velocity = <<-v[1], -v[2], -v[3]>>
                 /\ subject.position = <<p[1] - v[1] * t, p[2] - v[2] * t, p[3] - v[3] * t>>
            ELSE /\ subject.velocity = v
                 /\ subject.position = <<p[1] + v[1] * t, p[2] + v[2] * t, p[3] + v[3] * t>>

\* A reflection whose committed position is still beyond the border.
C14_Witness ==
    /\ PositionCalled
    /\ BeyondBorder
    /\ subject.velocity # subject_before.velocity
    /\ Magnitude2(subject.position)
           > method.parameters.border * method.parameters.border

\* ------------------------------------------------------ claims: the lookup

\* The pairs a <= b over 0 .. k-1 that come before (i, j) in row-major order.
row_major_rank(k, i, j) ==
    Cardinality({pair \in (0..(k - 1)) \X (0..(k - 1)) :
                    /\ pair[1] <= pair[2]
                    /\ (pair[1] < i \/ (pair[1] = i /\ pair[2] < j))})

\* The number of kinds of the Parameters of the lookup harness.
NumKinds == Len(lookup_parameters.particle_parameters)

\* C15: symmetry of the lookup.  On k >= 1 kinds and a table of k(k+1)/2
\* entries, for all i, j < k the lookups of (i, j) and of (j, i) both succeed
\* and return the same policy.
C15_LookupSymmetric ==
    (NumKinds >= 1 /\ Len(lookup_parameters.interactions) = table_len(NumKinds)) =>
        \A i \in 0..(NumKinds - 1) : \A j \in 0..(NumKinds - 1) :
            /\ interaction_by_indices(lookup_parameters, i, j).ok
            /\ interaction_by_indices(lookup_parameters, j, i).ok
            /\ interaction_by_indices(lookup_parameters, i, j)
                 = interaction_by_indices(lookup_parameters, j, i)
            /\ lookup_args = <<j, i>> =>
                 lookup_result = Some(interaction_by_indices(lookup_parameters, i, j))

\* The pair (2, 0) was looked up in the table whose only Attraction is the
\* entry of (0, 2), and returned it.
C15_Witness ==
    /\ NumKinds = 3
    /\ lookup_parameters.interactions =
           <<Neutral, Neutral, Attraction, Neutral, Neutral, Neutral>>
    /\ lookup_args = <<2, 0>>
    /\ lookup_result = Some(Ok(Attraction))

\* C16: triangular packing.  For k >= 1 the flat index of the pairs i <= j < k
\* is their rank in row-major upper-triangular order, diagonal included: the
\* indices are exactly 0 .. k(k+1)/2 - 1, one pair each, and every lookup
\* returns the entry of the table at the rank of its pair.
C16_TriangularPacking ==
    (NumKinds >= 1 /\ Len(lookup_parameters.interactions) = table_len(NumKinds)) =>
        LET k == NumKinds
            pairs == {pair \in (0..(k - 1)) \X (0..(k - 1)) : pair[1] <= pair[2]}
        IN  /\ \A pair \in pairs :
                  packed_index(k, pair[1], pair[2]) = row_major_rank(k, pair[1], pair[2])
            /\ {packed_index(k, pair[1], pair[2]) : pair \in pairs}
                  = 0..(table_len(k) - 1)
            /\ Cardinality(pairs) = table_len(k)
            /\ \A i \in 0..(k - 1) : \A j \in 0..(k - 1) :
                  LET lo == IF i < j THEN i ELSE j
                      hi == IF i < j THEN j ELSE i
                      listed == lookup_parameters.interactions[row_major_rank(k, lo, hi) + 1]
                  IN  /\ interaction_by_indices(lookup_parameters, i, j) = Ok(listed)
                      /\ lookup_args = <<i, j>> => lookup_result = Some(Ok(listed))

\* The diagonal pair (1, 1) was looked up in the table of three kinds whose
\* only Attraction is the fourth entry, and returned it.
C16_Witness ==
    /\ NumKinds = 3
    /\ lookup_parameters.interactions =
           <<Repulsion, Repulsion, Repulsion, Attraction, Repulsion, Repulsion>>
    /\ lookup_args = <<1, 1>>
    /\ lookup_result = Some(Ok(Attraction))

\* C17: a lookup with i >= k or j >= k returns the index-out-of-bounds error
\* value, for every number of kinds k, k = 0 included.
C17_OutOfRangeError ==
    (/\ lookup_args # <<>>
     /\ (lookup_args[1] >= NumKinds \/ lookup_args[2] >= NumKinds))
    => lookup_result = Some(Err("Index out of bounds"))

\* ------------------------------------------------- claims: parameter_space

\* The place of a value in a list.
index_of(list, value) == CHOOSE n \in 1..Len(list) : list[n] = value

\* The rank of a Parameters in the lexicographic order of the seven lists,
\* amount first and bucket size last.
lex_rank(e) ==
    ((((((index_of(amounts, e.amount) - 1)
          * Len(borders) + (index_of(borders, e.border) - 1))
          * Len(frictions) + (index_of(frictions, e.friction) - 1))
          * Len(timesteps) + (index_of(timesteps, e.timestep) - 1))
          * Len(gravity_constants) + (index_of(gravity_constants, e.gravity_constant) - 1))
          * Len(max_velocities) + (index_of(max_velocities, e.max_velocity) - 1))
          * Len(bucket_sizes) + (index_of(bucket_sizes, e.bucket_size) - 1)

\* A list names no value twice.
NoRepeats(list) == \A m \in 1..Len(list) : \A n \in 1..Len(list) : list[m] = list[n] => m = n

\* C19: parameter_space() returns the Cartesian product of the seven lists in
\* lexicographic order, amount outermost and bucket size innermost: the n-th
\* element pushed is the combination of rank n, in every call the same; no
\* list repeats a value, so no combination comes twice; and when the loops are
\* over 6*4*4*3*4*3*5 = 17280 elements were pushed.
C19_ParameterSpace ==
    /\ space_radix = <<6, 4, 4, 3, 4, 3, 5>>
    /\ size_parameter_space = 17280
    /\ NoRepeats(amounts) /\ NoRepeats(borders) /\ NoRepeats(frictions)
    /\ NoRepeats(timesteps) /\ NoRepeats(gravity_constants)
    /\ NoRepeats(max_velocities) /\ NoRepeats(bucket_sizes)
    /\ space_len <= 17280
    /\ (space_last = None) <=> (space_len = 0)
    /\ space_last # None =>
           /\ lex_rank(unwrap(space_last)) = space_len - 1
           /\ unwrap(space_last) = parameter_space_at(space_len - 1)
    /\ (space_call > 0 /\ space_returned) => space_len = 17280

\* The second call returned, the last element pushed being the last
\* combination.
C19_Witness ==
    /\ space_call = 2
    /\ space_returned
    /\ space_len = 17280
    /\ unwrap(space_last).amount = 100
    /\ unwrap(space_last).bucket_size = 30

\* C20: the friction of Parameters::default() and of every element of
\* parameter_space() lies in [0, 1) (in thousandths: 0 .. 999), so that one
\* apply_friction never turns the sign of a velocity component and never
\* raises its magnitude.
C20_FrictionRange ==
    LET in_range(friction) ==
            /\ 0 <= friction
            /\ friction < 1000
            /\ \A v \in -20..20 :
                  LET w == apply_friction([velocity |-> <<v, v, v>>], friction).velocity[1]
                  IN  w * v >= 0 /\ Abs(w) <= Abs(v)
    IN  /\ in_range(default_parameters.friction)
        /\ space_last # None => in_range(unwrap(space_last).friction)

\* ------------------------------------------- claims: persisting parameters

\* The kinds of the n-th Parameters handed to persist_parameters, as the caller
\* holds them.
KindsOf(n) == persisting[n].particle_parameters

\* C21: once persist_parameters has succeeded on a Parameters, every kind of
\* it carries the identifier the store assigned (id is Some), so that the
\* state vectors of a population of these kinds can be built: the lookup of
\* the kind and of its id succeeds for every particle.
C21_KindsCarryIds ==
    \A n \in 1..Len(persisted) :
        persisted[n].ok =>
            /\ \A k \in 1..Len(KindsOf(n)) : KindsOf(n)[k].id # None
            /\ state_vectors_of(create_particles(persisting[n], 0), persisting[n]) # None

\* Kinds of the first n Parameters handed to persist_parameters.
RECURSIVE KindsUpTo(_)
KindsUpTo(n) == IF n = 0 THEN 0 ELSE Len(KindsOf(n)) + KindsUpTo(n - 1)

\* C22: persist_parameters on an empty migrated store followed by commit
\* leaves one run_parameters row per Parameters and one particle_parameters
\* row per kind; for the four kinds of the test's Parameters it leaves 1 run
\* row, 4 particle_parameters rows and 9 interactions rows.
C22_RowsWritten ==
    persist_pc = "committed" =>
        /\ Len(database.run_parameters) = Len(persisting)
        /\ Len(database.particle_parameters) = KindsUpTo(Len(persisting))
        /\ persisting = <<test_persist_parameters_input>> =>
               /\ Len(database.run_parameters) = 1
               /\ Len(database.particle_parameters) = 4
               /\ Len(database.interactions) = 9

\* ------------------------------------------- claims: the state discretizer

\* b is component / bucket_size truncated toward zero, said without a
\* division: b buckets fit into the component's magnitude and b + 1 do not,
\* and b has the component's sign unless it is 0.
TruncatedQuotient(component, bucket_size, b) ==
    /\ Abs(b) * bucket_size <= Abs(component)
    /\ Abs(component) < (Abs(b) + 1) * bucket_size
    /\ b # 0 => Signum(b) = Signum(component)

\* C23: every position and velocity bucket of a state vector is the component
\* divided by bucket_size and truncated toward zero, so that a component in
\* (-bucket_size, bucket_size) falls into bucket 0; the mass bucket is the
\* mass, not divided by bucket_size; mass 1, position and velocity (0, 0, 0)
\* and bucket_size 10 give mass bucket 1 and all buckets 0.
C23_TruncationTowardZero ==
    disc_vector # None =>
        LET v == unwrap(disc_vector)
        IN  /\ \A a \in 1..3 :
                 /\ TruncatedQuotient(disc_particle.position[a], disc_bucket_size,
                                      v.position_bucket[a])
                 /\ TruncatedQuotient(disc_particle.velocity[a], disc_bucket_size,
                                      v.velocity_bucket[a])
                 /\ Abs(disc_particle.position[a]) < disc_bucket_size
                        => v.position_bucket[a] = 0
                 /\ Abs(disc_particle.velocity[a]) < disc_bucket_size
                        => v.velocity_bucket[a] = 0
            /\ v.mass = disc_particle.mass
            /\ ( /\ disc_particle.mass = 1
                 /\ disc_particle.position = <<0, 0, 0>>
                 /\ disc_particle.velocity = <<0, 0, 0>>
                 /\ disc_bucket_size = 10 )
               => /\ v.mass = 1
                  /\ v.position_bucket = <<0, 0, 0>>
                  /\ v.velocity_bucket = <<0, 0, 0>>

\* A state vector of a particle with a negative component inside the bucket
\* around zero, a negative component beyond it that is no multiple of the
\* bucket size, and a mass smaller than the bucket size.
C23_Witness ==
    /\ disc_vector # None
    /\ disc_particle.position[1] = -1
    /\ disc_particle.position[2] = -19
    /\ disc_bucket_size = 10
    /\ disc_particle.mass = 1
    /\ unwrap(disc_vector).position_bucket[1] = 0
    /\ unwrap(disc_vector).position_bucket[2] = -1
    /\ unwrap(disc_vector).mass = 1

\* ------------------------------------------------ claims: interactive mode

\* C24: a frame's integrator step runs on a population that was created from
\* the parameters as they are at that step: after the panel changed a
\* parameter, no particle created under the old parameters is stepped.
C24_EditStartsFreshRun ==
    [][iteration_step' = iteration_step + 1 => created_under = frame_parameters]_vars

\* ------------------------------------------------ claims: sweep progress

\* Every closure returned, every lock is free and every run is counted.
SweepEnded ==
    /\ \A w \in Workers : pc[w] = "done"
    /\ connection.holder = 0
    /\ counter_guard = 0
    /\ average_guard = 0
    /\ counter = NumSets

\* The locks worker w holds: 1 the connection, 2 the counter, 3 the average.
Held(w) ==
    (IF connection.holder = w THEN {1} ELSE {})
    \cup (IF counter_guard = w THEN {2} ELSE {})
    \cup (IF average_guard = w THEN {3} ELSE {})

\* The locks worker w acquires in a step.
Acquired(w) ==
    (IF connection'.holder = w /\ connection.holder # w THEN {1} ELSE {})
    \cup (IF counter_guard' = w /\ counter_guard # w THEN {2} ELSE {})
    \cup (IF average_guard' = w /\ average_guard # w THEN {3} ELSE {})

Committed(w) == \E k \in DOMAIN store : k[3] \in IdsOf(w) /\ store[k] > 0

\* The workers that passed the increment of the counter.
Counted == {w \in Workers : pc[w] \in {"average", "done"}}

\* What every state of the sweep satisfies.
CounterInRange ==
    /\ 0 <= counter
    /\ counter <= NumSets
    /\ counter = Cardinality(Counted)
    /\ \A w \in Counted : Committed(w)
    /\ counter <= Cardinality({w \in Workers : Committed(w)})
    /\ NumSets - counter >= 0
    /\ size_parameter_space - counter >= 0

C27_RunWideVelocityBound ==
    life_particle # <<>> =>
        /\ life_particle.max_velocity = life_created_with
        /\ \A a \in 1..3 :
             /\ life_particle.velocity[a] \notin {NaN, Inf, -Inf}
             /\ Abs(life_particle.velocity[a]) <= life_created_with

\* After its calls the particle moves at the speed limit it was created with
\* on one axis and backwards on an axis, while the max_velocity of the
\* parameters has been lowered below that speed.
C27_Witness ==
    /\ life_calls = MaxLifeCalls
    /\ \E a \in 1..3 : life_particle.velocity[a] = life_created_with
    /\ \E a \in 1..3 : life_particle.velocity[a] < 0
    /\ life_parameters.max_velocity < life_created_with


=============================================================================
